---- MODULE Spec2Model ----
(***************************************************************************)
(* Gym membership system (final.c): linked list of members, automatic      *)
(* expiry synchronisation, renewal policy and persistence of the list to   *)
(* members.txt through the staging file members.tmp.                       *)
(*                                                                         *)
(* Encodings.  A date string "YYYY-MM-DD" is the integer YYYYMMDD; the     *)
(* value 0 stands for a string sscanf cannot parse.  The membership types  *)
(* of the source are written "monthly", "quarterly", "yearly", the genders *)
(* "male" and "female".  A text (name, phone, line of a file) is the tuple *)
(* of its characters: a digit is its value 0..9, any other character its   *)
(* Unicode code point ('-' is 45, '|' is 124).  A file is [exists, lines]; *)
(* a line is the text fprintf writes, without the newline.                 *)
(***************************************************************************)
EXTENDS Integers, Sequences, FiniteSets, TLC

VARIABLES
    members,        \* the list head..tail, in list order, one record per Node
    next_card_id,   \* static int next_card_id
    clock,          \* the host clock as localtime reports it (struct tm)
    ticks,          \* number of clock advances so far
    file,           \* DATA_FILE  members.txt
    tmp,            \* TEMP_FILE  members.tmp
    pre,            \* contents of DATA_FILE when the running saveToFile was entered
    pc,             \* position of the process
    caller,         \* who called the running saveToFile
    save_ret,       \* value returned by the last saveToFile, -1 before any return
    out,            \* last result line printed by a handler
    faults,         \* number of environment faults so far
    issued,         \* history: the card ids addMember has assigned, over all runs
    list,           \* the linked list: head, tail, member_count and next of each live node
    nodes           \* history: the addresses of the nodes of members, in insertion order

vars == <<members, next_card_id, clock, ticks, file, tmp, pre, pc, caller,
          save_ret, out, faults, issued, list, nodes>>

----------------------------------------------------------------------------
(* Bounds of the model *)

MaxTicks == 1
MaxFaults == 1
MaxCardId == 1005
MaxRenewals == 1
MaxFileLines == 2

(* Inputs typed at the prompts *)
ClockJumps == {1}
Waits == {0} \cup ClockJumps
PhoneIds == {1004, 1999}
DeleteIds == {1004, 1999}
RenewIds == {1004, 1999}
SearchIds == {1004, 1999}
StatusIds == {1004, 1999}
TypeChoices == {1, 2, 3}
AddTypeChoices == {1}
NewPhones == {<<1, 3, 5, 0, 0, 0, 0, 0, 0, 0, 0>>}

(* Program constants *)
MAX_MEMBERS == 100
FirstCardId == 1001
LoadMaxId == 1000
DemoNextId == 1005

Absent == [exists |-> FALSE, lines |-> <<>>]

----------------------------------------------------------------------------
(* Input validation *)

isValidAge(age) == age >= 18 /\ age <= 80

isValidPhone(phone) ==
    /\ Len(phone) = 11
    /\ \A i \in 1..Len(phone) : phone[i] >= 0 /\ phone[i] <= 9

isValidGender(gender) == gender = "male" \/ gender = "female"

----------------------------------------------------------------------------
(* Calendar *)

(* variant: every fourth year is a leap year *)
isLeapYear_Julian(y) == y % 4 = 0

isLeapYear(y) == (y % 4 = 0 /\ y % 100 # 0) \/ (y % 400 = 0)

mdays == <<31, 28, 31, 30, 31, 30, 31, 31, 30, 31, 30, 31>>

(* variant: February has 28 days in every year *)
daysInMonth_NoLeapDay(y, m) == mdays[m]

daysInMonth(y, m) ==
    IF m = 2 THEN mdays[m] + (IF isLeapYear(y) THEN 1 ELSE 0) ELSE mdays[m]

RECURSIVE monthsBefore(_, _)
monthsBefore(y, m) ==
    IF m <= 1 THEN 0 ELSE monthsBefore(y, m - 1) + daysInMonth(y, m - 1)

(* sscanf(date, "%d-%d-%d") of a date string *)
scanYear(date) == date \div 10000
scanMonth(date) == (date \div 100) % 100
scanDay(date) == date % 100

(* the quotient of C's integer division, which truncates towards zero *)
truncDiv(a, b) == IF a >= 0 THEN a \div b ELSE -((-a) \div b)

dateToDays(date) ==
    LET y == scanYear(date)
        m == scanMonth(date)
        d == scanDay(date)
        y1 == y - 1
        leapCount == truncDiv(y1, 4) - truncDiv(y1, 100) + truncDiv(y1, 400)
    IN  IF date = 0 THEN 0
        ELSE IF m < 1 \/ m > 12 THEN 0
        ELSE IF d < 1 \/ d > daysInMonth(y, m) THEN 0
        ELSE y * 365 + leapCount + monthsBefore(y, m) + d

getDurationDays(type) ==
    IF type = "monthly" THEN 30
    ELSE IF type = "quarterly" THEN 90
    ELSE IF type = "yearly" THEN 365
    ELSE 0

(* sprintf("%04d-%02d-%02d") of the broken-down local time *)
getSystemDate(tm) == (tm.tm_year + 1900) * 10000 + (tm.tm_mon + 1) * 100 + tm.tm_mday

(* The host clock one day later *)
nextDay(tm) ==
    LET y == tm.tm_year + 1900
        last == IF tm.tm_mon = 1
                THEN (IF (y % 4 = 0 /\ y % 100 # 0) \/ y % 400 = 0 THEN 29 ELSE 28)
                ELSE IF tm.tm_mon \in {3, 5, 8, 10} THEN 30 ELSE 31
    IN  IF tm.tm_mday < last THEN [tm EXCEPT !.tm_mday = tm.tm_mday + 1]
        ELSE IF tm.tm_mon < 11 THEN [tm EXCEPT !.tm_mon = tm.tm_mon + 1, !.tm_mday = 1]
        ELSE [tm_year |-> tm.tm_year + 1, tm_mon |-> 0, tm_mday |-> 1]

RECURSIVE laterBy(_, _)
laterBy(tm, k) == IF k = 0 THEN tm ELSE laterBy(nextDay(tm), k - 1)

----------------------------------------------------------------------------
(* The list *)

createNode(m) == [m EXCEPT !.bonus_days = 0]

appendNode(ms, node) == Append(ms, node)

HasCard(ms, id) == \E i \in 1..Len(ms) : ms[i].card_id = id

(* index of the first node with this card_id; only used when HasCard *)
findByCardID(ms, id) ==
    CHOOSE i \in 1..Len(ms) :
        /\ ms[i].card_id = id
        /\ \A j \in 1..(i - 1) : ms[j].card_id # id

calcExpireDays(p) ==
    dateToDays(p.join_date) + getDurationDays(p.membership_type) + p.bonus_days

(* variant: a membership is also expired on its last day (<= instead of <) *)
syncAutoExpire_Inclusive(ms, tm) ==
    LET current_days == dateToDays(getSystemDate(tm))
    IN  [i \in 1..Len(ms) |->
            IF ms[i].is_active = 1 /\ calcExpireDays(ms[i]) - current_days <= 0
            THEN [ms[i] EXCEPT !.is_active = 0]
            ELSE ms[i]]

(* variant: the pass recomputes the flag of every node from the date *)
syncAutoExpire_TwoWay(ms, tm) ==
    LET current_days == dateToDays(getSystemDate(tm))
    IN  [i \in 1..Len(ms) |->
            [ms[i] EXCEPT !.is_active =
                IF calcExpireDays(ms[i]) - current_days < 0 THEN 0 ELSE 1]]

(* variant: the pass flips the flag of every node past its expire day *)
syncAutoExpire_Toggle(ms, tm) ==
    LET current_days == dateToDays(getSystemDate(tm))
    IN  [i \in 1..Len(ms) |->
            IF calcExpireDays(ms[i]) - current_days < 0
            THEN [ms[i] EXCEPT !.is_active = 1 - ms[i].is_active]
            ELSE ms[i]]

(* one pass of syncAutoExpire at the clock reading tm *)
syncAutoExpire(ms, tm) ==
    LET current_days == dateToDays(getSystemDate(tm))
    IN  [i \in 1..Len(ms) |->
            IF ms[i].is_active = 1 /\ calcExpireDays(ms[i]) - current_days < 0
            THEN [ms[i] EXCEPT !.is_active = 0]
            ELSE ms[i]]

----------------------------------------------------------------------------
(* Persistence: the text of members.txt *)

(* Op applied to the value of v: v is evaluated once, as a C argument is *)
ByValue(Op(_), v) == CHOOSE r \in {Op(x) : x \in {v}} : TRUE

(* the characters printf("%d") writes for n >= 0 *)
RECURSIVE digitsOf(_)
digitsOf(n) == IF n < 10 THEN <<n>> ELSE Append(digitsOf(n \div 10), n % 10)

(* printf("%d") and printf("%ld") *)
printInt(n) == IF n < 0 THEN <<45>> \o digitsOf(0 - n) ELSE digitsOf(n)

(* printf("%0wd") of n >= 0 *)
printPadded(n, w) ==
    ByValue(LAMBDA ds : [i \in 1..(w - Len(ds)) |-> 0] \o ds, digitsOf(n))

(* the text "YYYY-MM-DD" of a date *)
dateText(date) ==
    printPadded(scanYear(date), 4) \o <<45>> \o printPadded(scanMonth(date), 2)
        \o <<45>> \o printPadded(scanDay(date), 2)

(* the bytes of the gender and type literals of the source *)
genderText(gender) ==
    IF gender = "male" THEN <<30007>>
    ELSE IF gender = "female" THEN <<22899>>
    ELSE <<63>>

typeText(type) ==
    IF type = "monthly" THEN <<26376, 21345>>
    ELSE IF type = "quarterly" THEN <<23395, 21345>>
    ELSE IF type = "yearly" THEN <<24180, 21345>>
    ELSE <<63>>

(* the gender and the type a text stands for; "other" when it is none of the
   literals strcmp compares it with *)
genderOfText(text) ==
    IF text = genderText("male") THEN "male"
    ELSE IF text = genderText("female") THEN "female"
    ELSE "other"

typeOfText(text) ==
    IF text = typeText("monthly") THEN "monthly"
    ELSE IF text = typeText("quarterly") THEN "quarterly"
    ELSE IF text = typeText("yearly") THEN "yearly"
    ELSE "other"

isDigit(c) == c >= 0 /\ c <= 9

(* number of digits of text from position i on *)
countDigits(text, i) ==
    IF \A j \in i..Len(text) : isDigit(text[j]) THEN
        (IF i > Len(text) THEN 0 ELSE Len(text) - i + 1)
    ELSE (CHOOSE j \in i..Len(text) :
             ~isDigit(text[j]) /\ \A k \in i..(j - 1) : isDigit(text[k])) - i

(* the number the n digits of text from position i on stand for.  C leaves the
   result of a numeral that does not fit an int open; here it is INT_MAX, the
   value strtol clamps to where long has 32 bits *)
readDigits(text, i, n) ==
    LET value[k \in 0..n] ==
            IF k = 0 THEN 0
            ELSE IF value[k - 1] > 214748363 THEN 2147483647
            ELSE value[k - 1] * 10 + text[i + k - 1]
    IN  value[n]

(* one %d conversion of sscanf at position i: whether it matched, the value and
   the position after it *)
scanInt(text, i) ==
    LET neg == i <= Len(text) /\ text[i] = 45
        from == IF neg THEN i + 1 ELSE i
    IN  ByValue(LAMBDA n :
                   [ok |-> n > 0,
                    val |-> IF neg THEN 0 - readDigits(text, from, n)
                            ELSE readDigits(text, from, n),
                    next |-> from + n],
                countDigits(text, from))

(* atoi and atol: an optional minus sign, then the leading digits; 0 when
   there is none *)
atoi(text) == scanInt(text, 1).val

(* sscanf(date, "%d-%d-%d", &y, &m, &d) of a text: the date read, 0 when fewer
   than three numbers are read or the month or day has no two-digit form *)
scanDate(text) ==
    ByValue(LAMBDA y :
        IF ~y.ok \/ y.next > Len(text) \/ text[y.next] # 45 THEN 0
        ELSE ByValue(LAMBDA m :
            IF ~m.ok \/ m.next > Len(text) \/ text[m.next] # 45 THEN 0
            ELSE ByValue(LAMBDA d :
                IF ~d.ok THEN 0
                ELSE IF y.val < 0 \/ m.val < 0 \/ m.val > 99 \/ d.val < 0 \/ d.val > 99
                     THEN 0
                ELSE y.val * 10000 + m.val * 100 + d.val,
                scanInt(text, m.next + 1)),
            scanInt(text, y.next + 1)),
        scanInt(text, 1))

(* the first n characters of a text: strncpy into a buffer of n + 1 bytes *)
truncated(text, n) == IF Len(text) > n THEN SubSeq(text, 1, n) ELSE text

(* the line fprintf writes for one node, without its newline *)
Line(node) ==
    ByValue(LAMBDA p :
        printInt(p.card_id) \o <<124>> \o p.name \o <<124>> \o genderText(p.gender)
            \o <<124>> \o printInt(p.age) \o <<124>> \o p.phone
            \o <<124>> \o dateText(p.join_date) \o <<124>> \o typeText(p.membership_type)
            \o <<124>> \o printInt(p.is_active) \o <<124>> \o printInt(p.bonus_days),
        node)

(* the tokens the strtok(.., "|") calls cut a line into: the maximal runs of
   characters other than '|', in the order of their first characters *)
strtok(text) ==
    ByValue(LAMBDA starts :
        [k \in 1..Cardinality(starts) |->
            LET first == CHOOSE s \in starts : Cardinality({t \in starts : t < s}) = k - 1
                last == IF \A j \in first..Len(text) : text[j] # 124 THEN Len(text)
                        ELSE (CHOOSE j \in first..Len(text) :
                                 text[j] = 124 /\ \A i \in first..(j - 1) : text[i] # 124) - 1
            IN  SubSeq(text, first, last)],
        {i \in 1..Len(text) : text[i] # 124 /\ (i = 1 \/ text[i - 1] = 124)})

(* the values loadFromFile reads from the first nine tokens of a line *)
fieldsOfLine(tok) ==
    [card_id |-> atoi(tok[1]), name |-> truncated(tok[2], 29),
     gender |-> genderOfText(truncated(tok[3], 9)), age |-> atoi(tok[4]),
     phone |-> truncated(tok[5], 14), join_date |-> scanDate(truncated(tok[6], 11)),
     membership_type |-> typeOfText(truncated(tok[7], 9)),
     is_active |-> atoi(tok[8]), bonus_days |-> atoi(tok[9])]

(* variant: the age is not checked *)
fieldsAccepted_NoAgeCheck(m) ==
    /\ m.card_id > 0
    /\ isValidPhone(m.phone)
    /\ isValidGender(m.gender)
    /\ getDurationDays(m.membership_type) # 0
    /\ (m.is_active = 0 \/ m.is_active = 1)
    /\ dateToDays(m.join_date) # 0

(* the checks loadFromFile applies to the values read *)
fieldsAccepted(m) ==
    /\ m.card_id > 0
    /\ isValidAge(m.age)
    /\ isValidPhone(m.phone)
    /\ isValidGender(m.gender)
    /\ getDurationDays(m.membership_type) # 0
    /\ (m.is_active = 0 \/ m.is_active = 1)
    /\ dateToDays(m.join_date) # 0

(* whether loadFromFile takes a line: nine tokens and every check passed *)
lineAccepted(line) ==
    ByValue(LAMBDA tok :
                IF Len(tok) < 9 THEN FALSE
                ELSE ByValue(fieldsAccepted, fieldsOfLine(tok)),
            strtok(line))

(* the node loadFromFile builds from an accepted line *)
nodeOfLine(line) ==
    ByValue(LAMBDA m : [createNode(m) EXCEPT !.bonus_days = m.bonus_days],
            fieldsOfLine(strtok(line)))

(* the greatest card_id of the nodes, LoadMaxId when none is greater *)
maxCardId(ms) ==
    ByValue(LAMBDA ids : CHOOSE m \in ids : \A x \in ids : x <= m,
            {LoadMaxId} \cup {ms[i].card_id : i \in 1..Len(ms)})

(* the fgets loop of loadFromFile: a line that fails a check is passed over,
   an accepted line is appended, and the loop ends at the first accepted line
   that finds the list full *)
loadLines(lines) ==
    ByValue(LAMBDA accepted :
        ByValue(LAMBDA ms : [ms |-> ms, max_id |-> maxCardId(ms), loaded |-> Len(ms)],
                [i \in 1..(IF Len(accepted) > MAX_MEMBERS THEN MAX_MEMBERS
                           ELSE Len(accepted)) |-> nodeOfLine(accepted[i])]),
        SelectSeq(lines, lineAccepted))

(* loadFromFile on the store (ms, next): the store afterwards and the count returned *)
loadFromFile(f, ms, next, tm) ==
    IF ~f.exists THEN [ms |-> ms, next |-> next, loaded |-> 0]
    ELSE ByValue(LAMBDA r : [ms |-> syncAutoExpire(r.ms, tm), next |-> r.max_id + 1,
                             loaded |-> r.loaded],
                 loadLines(f.lines))

(* the four demonstration members of initTestData *)
TestData ==
    << [card_id |-> 1001, name |-> <<24352, 19977>>, gender |-> "male", age |-> 25,
        phone |-> <<1, 3, 8, 0, 0, 1, 3, 8, 0, 0, 0>>, join_date |-> 20251201,
        membership_type |-> "yearly", is_active |-> 1, bonus_days |-> 0],
       [card_id |-> 1002, name |-> <<26446, 22235>>, gender |-> "female", age |-> 30,
        phone |-> <<1, 3, 9, 1, 2, 3, 4, 5, 6, 7, 8>>, join_date |-> 20240615,
        membership_type |-> "monthly", is_active |-> 0, bonus_days |-> 0],
       [card_id |-> 1003, name |-> <<29579, 20116>>, gender |-> "male", age |-> 45,
        phone |-> <<1, 3, 6, 6, 6, 6, 6, 6, 6, 6, 6>>, join_date |-> 20260101,
        membership_type |-> "monthly", is_active |-> 1, bonus_days |-> 0],
       [card_id |-> 1004, name |-> <<36213, 20845>>, gender |-> "female", age |-> 22,
        phone |-> <<1, 3, 7, 7, 7, 7, 7, 7, 7, 7, 7>>, join_date |-> 20251101,
        membership_type |-> "quarterly", is_active |-> 1, bonus_days |-> 0] >>

initTestData(tm) ==
    syncAutoExpire([i \in 1..Len(TestData) |-> createNode(TestData[i])], tm)

----------------------------------------------------------------------------
(* The linked list itself: head, tail, member_count and the next pointer of
   every live node. A node is an address of the heap; the record it holds is
   the one of members at the position the address has in nodes. *)

NULL == 0

(* the heap has room for one node more than the store may hold *)
Addresses == 1..(MAX_MEMBERS + 1)

EmptyList == [head |-> NULL, tail |-> NULL, next |-> << >>, member_count |-> 0]

(* malloc in createNode: an address that is not in use; which one is the
   allocator's choice (here the k-th lowest free one for the k-th of a run of
   calls), and the lists built are the same up to that choice *)
kthFree(l, k) ==
    CHOOSE a \in Addresses :
        /\ a \notin DOMAIN l.next
        /\ Cardinality({b \in 1..a : b \notin DOMAIN l.next}) = k

malloc(l) == kthFree(l, 1)

(* p->next for every address p, NULL for an address that holds no node *)
nextTable(l) ==
    SubSeq([a \in Addresses |-> IF a \in DOMAIN l.next THEN l.next[a] ELSE NULL],
           1, MAX_MEMBERS + 1)

(* twice the steps of table j, NULL from NULL on *)
doubled(j) ==
    ByValue(LAMBDA t : SubSeq([a \in 1..Len(t) |-> IF t[a] = NULL THEN NULL ELSE t[t[a]]],
                              1, Len(t)),
            j)

(* the tables of 1, 2, 4, 8, 16, 32 and 64 steps of p = p->next *)
stepTables(l) ==
    ByValue(LAMBDA t1 :
     ByValue(LAMBDA t2 :
      ByValue(LAMBDA t4 :
       ByValue(LAMBDA t8 :
        ByValue(LAMBDA t16 :
         ByValue(LAMBDA t32 : <<t1, t2, t4, t8, t16, t32, doubled(t32)>>,
                 doubled(t16)),
                doubled(t8)),
               doubled(t4)),
              doubled(t2)),
             doubled(t1)),
            nextTable(l))

(* the steps of table t from p when wanted, p otherwise *)
stepped(t, wanted, from) ==
    IF wanted THEN ByValue(LAMBDA p : IF p = NULL THEN NULL ELSE t[p], from) ELSE from

(* the node k steps of p = p->next after head, k < 128 *)
hops(l, tables, k) ==
    stepped(tables[7], (k \div 64) % 2 = 1,
     stepped(tables[6], (k \div 32) % 2 = 1,
      stepped(tables[5], (k \div 16) % 2 = 1,
       stepped(tables[4], (k \div 8) % 2 = 1,
        stepped(tables[3], (k \div 4) % 2 = 1,
         stepped(tables[2], (k \div 2) % 2 = 1,
          stepped(tables[1], k % 2 = 1, l.head)))))))

(* the addresses met from head along next, in that order; a walk that has not
   met NULL after one step more than there are live nodes is in a cycle *)
traversal(l) ==
    ByValue(LAMBDA tables :
        ByValue(LAMBDA met :
                    SubSeq(met, 1, Cardinality({j \in 1..Len(met) : met[j] # NULL})),
                SubSeq([k \in 1..(Cardinality(DOMAIN l.next) + 1) |-> hops(l, tables, k - 1)],
                       1, Cardinality(DOMAIN l.next) + 1)),
        stepTables(l))

(* createNode sets next of the new node to NULL; appendNode links it behind
   tail, or makes it head and tail of an empty list, and counts it *)
linkNode(l, node) ==
    [head |-> IF l.head = NULL THEN node ELSE l.head,
     tail |-> node,
     next |-> [a \in DOMAIN l.next \cup {node} |->
                 IF l.head # NULL /\ a = l.tail THEN node
                 ELSE IF a = node THEN NULL
                 ELSE l.next[a]],
     member_count |-> l.member_count + 1]

(* freeAllMembers: every node met from head is freed *)
freeAllMembers(l) ==
    ByValue(LAMBDA met :
                [head |-> NULL, tail |-> NULL,
                 next |-> [a \in DOMAIN l.next \ {met[k] : k \in DOMAIN met} |-> l.next[a]],
                 member_count |-> 0],
            traversal(l))

(* n nodes created and appended one after the other, as loadFromFile and
   initTestData do: the list after the n calls of createNode and appendNode,
   and the addresses in the order of their insertion *)
appendedList(l, n) ==
    ByValue(LAMBDA ns :
        [list |-> IF n = 0 THEN l
                  ELSE [head |-> IF l.head = NULL THEN ns[1] ELSE l.head,
                        tail |-> ns[n],
                        next |-> [a \in DOMAIN l.next \cup {ns[k] : k \in 1..n} |->
                                    IF a \in DOMAIN l.next
                                    THEN (IF l.head # NULL /\ a = l.tail THEN ns[1]
                                          ELSE l.next[a])
                                    ELSE IF a = ns[n] THEN NULL
                                    ELSE ns[(CHOOSE k \in 1..n : ns[k] = a) + 1]],
                        member_count |-> l.member_count + n],
         nodes |-> ns],
        SubSeq([k \in 1..n |-> kthFree(l, k)], 1, n))

(* the record held by the node at address a *)
recordAt(ns, ms, a) == ms[CHOOSE i \in 1..Len(ns) : ns[i] = a]

(* the search loop of deleteExpiredMember: cur is the first node met from head
   whose card_id is id (NULL when there is none), prev the node before it *)
searchList(l, ns, ms, id) ==
    ByValue(LAMBDA met :
        ByValue(LAMBDA hits :
            IF hits = {} THEN [prev |-> IF Len(met) = 0 THEN NULL ELSE met[Len(met)],
                               cur |-> NULL]
            ELSE ByValue(LAMBDA i : [prev |-> IF i = 1 THEN NULL ELSE met[i - 1],
                                     cur |-> met[i]],
                         CHOOSE i \in hits : \A j \in hits : i <= j),
            {i \in 1..Len(met) : recordAt(ns, ms, met[i]).card_id = id}),
        traversal(l))

(* variant: tail is not moved when the last node is unlinked *)
unlinkFound_KeepsTail(l, s) ==
    [head |-> IF s.prev = NULL THEN l.next[s.cur] ELSE l.head,
     tail |-> l.tail,
     next |-> [a \in DOMAIN l.next \ {s.cur} |->
                 IF a = s.prev THEN l.next[s.cur] ELSE l.next[a]],
     member_count |-> l.member_count - 1]

(* deleteExpiredMember unlinks the node found, moves tail when it was the last
   one, frees it and counts down *)
unlinkFound(l, s) ==
    [head |-> IF s.prev = NULL THEN l.next[s.cur] ELSE l.head,
     tail |-> IF s.cur = l.tail THEN s.prev ELSE l.tail,
     next |-> [a \in DOMAIN l.next \ {s.cur} |->
                 IF a = s.prev THEN l.next[s.cur] ELSE l.next[a]],
     member_count |-> l.member_count - 1]

----------------------------------------------------------------------------
(* Initial state: the program is not running and has never run *)

StartClock == [tm_year |-> 126, tm_mon |-> 0, tm_mday |-> 30]

Init ==
    /\ members = <<>>
    /\ next_card_id = FirstCardId
    /\ clock = StartClock
    /\ ticks = 0
    /\ file = Absent
    /\ tmp = Absent
    /\ pre = Absent
    /\ pc = "off"
    /\ caller = "none"
    /\ save_ret = -1
    /\ out = "none"
    /\ faults = 0
    /\ issued = {}
    /\ list = EmptyList
    /\ nodes = <<>>

(* a handler hands over to saveToFile(DATA_FILE) *)
callSave(who) ==
    /\ pc' = "save_open"
    /\ caller' = who
    /\ pre' = file
    /\ save_ret' = -1

(* a handler returns to the menu without saving *)
noSave ==
    /\ pc' = "menu"
    /\ UNCHANGED <<caller, pre, save_ret>>

----------------------------------------------------------------------------
(* main: startup *)

main ==
    /\ pc = "off"
    /\ LET r == loadFromFile(file, members, next_card_id, clock)
       IN  IF r.loaded <= 0
           THEN /\ members' = initTestData(clock)
                /\ next_card_id' = DemoNextId
                /\ out' = "demo_data"
                /\ callSave("init")
           ELSE /\ members' = r.ms
                /\ next_card_id' = r.next
                /\ out' = "loaded"
                /\ noSave
    /\ list' = appendedList(freeAllMembers(list), Len(members')).list
    /\ nodes' = appendedList(freeAllMembers(list), Len(members')).nodes
    /\ UNCHANGED <<clock, ticks, file, tmp, faults>>
    /\ UNCHANGED issued

----------------------------------------------------------------------------
(* saveToFile, statement by statement *)

(* saveToFile returns ret to its caller; after the save of menu choice 0 main
   frees the list and the process ends *)
saveReturn(ret) ==
    /\ save_ret' = ret
    /\ pc' = IF caller = "exit" THEN "off" ELSE "menu"
    /\ members' = IF caller = "exit" THEN <<>> ELSE members
    /\ list' = IF caller = "exit" THEN freeAllMembers(list) ELSE list
    /\ nodes' = IF caller = "exit" THEN <<>> ELSE nodes
    /\ next_card_id' = IF caller = "exit" THEN FirstCardId ELSE next_card_id
    /\ caller' = "none"
    /\ pre' = Absent

(* fopen(TEMP_FILE, "wb") *)
saveOpen(ok) ==
    /\ pc = "save_open"
    /\ IF ok
       THEN /\ tmp' = [exists |-> TRUE, lines |-> <<>>]
            /\ pc' = "save_write"
            /\ UNCHANGED <<save_ret, members, next_card_id, faults, pre, caller,
                           list, nodes>>
       ELSE /\ faults < MaxFaults
            /\ faults' = faults + 1
            /\ saveReturn(0)
            /\ UNCHANGED tmp
    /\ UNCHANGED <<clock, ticks, file, out>>
    /\ UNCHANGED issued

(* the fprintf loop over the list and fclose(fp) *)
saveWrite ==
    /\ pc = "save_write"
    /\ tmp' = [tmp EXCEPT !.lines = [i \in 1..Len(members) |-> Line(members[i])]]
    /\ pc' = "save_remove"
    /\ UNCHANGED <<members, next_card_id, clock, ticks, file, pre, caller,
                   save_ret, out, faults>>
    /\ UNCHANGED <<issued, list, nodes>>

(* remove(filename); its result is ignored *)
saveRemove(ok) ==
    /\ pc = "save_remove"
    /\ IF ok
       THEN /\ file' = Absent
            /\ UNCHANGED faults
       ELSE /\ file.exists
            /\ faults < MaxFaults
            /\ faults' = faults + 1
            /\ UNCHANGED file
    /\ pc' = "save_rename"
    /\ UNCHANGED <<members, next_card_id, clock, ticks, tmp, pre, caller,
                   save_ret, out>>
    /\ UNCHANGED <<issued, list, nodes>>

(* rename(TEMP_FILE, filename), remove(TEMP_FILE) when it fails, and the return *)
saveRename(ok) ==
    /\ pc = "save_rename"
    /\ IF ok
       THEN /\ file' = tmp
            /\ tmp' = Absent
            /\ saveReturn(1)
            /\ UNCHANGED faults
       ELSE /\ faults < MaxFaults
            /\ faults' = faults + 1
            /\ tmp' = Absent
            /\ saveReturn(0)
            /\ UNCHANGED file
    /\ UNCHANGED <<clock, ticks, out>>
    /\ UNCHANGED issued

(* the process is killed or the machine loses power *)
Crash ==
    /\ pc # "off"
    /\ faults < MaxFaults
    /\ faults' = faults + 1
    /\ pc' = "off"
    /\ members' = <<>>
    /\ list' = EmptyList
    /\ nodes' = <<>>
    /\ next_card_id' = FirstCardId
    /\ caller' = "none"
    /\ pre' = Absent
    /\ UNCHANGED <<clock, ticks, file, tmp, save_ret, out>>
    /\ UNCHANGED issued

(* the host clock moves on while the menu waits *)
Tick(k) ==
    /\ pc = "menu"
    /\ ticks < MaxTicks
    /\ ticks' = ticks + 1
    /\ clock' = laterBy(clock, k)
    /\ UNCHANGED <<members, next_card_id, file, tmp, pre, pc, caller, save_ret,
                   out, faults>>
    /\ UNCHANGED <<issued, list, nodes>>

----------------------------------------------------------------------------
(* Menu handlers *)

typeOfChoice(typeChoice) ==
    IF typeChoice = 1 THEN "monthly"
    ELSE IF typeChoice = 2 THEN "quarterly"
    ELSE "yearly"

durationOfChoice(typeChoice) ==
    IF typeChoice = 1 THEN 30
    ELSE IF typeChoice = 2 THEN 90
    ELSE 365

(* variant: prev->next skips the node after cur as well *)
unlinkNode_DropsNext(ms, i) == SubSeq(ms, 1, i - 1) \o SubSeq(ms, i + 2, Len(ms))

(* unlinking of node i: head, prev->next and tail are the sequence itself *)
unlinkNode(ms, i) == SubSeq(ms, 1, i - 1) \o SubSeq(ms, i + 1, Len(ms))

(* variant: the test of is_active is missing *)
deleteRefused_Never(n) == FALSE

(* the eligibility test of deleteExpiredMember *)
deleteRefused(n) == n.is_active = 1

(* variant: the comparison of the types is missing *)
renewBranch_NoTypeCheck(n, newType, current_days) ==
    IF n.is_active = 0 \/ calcExpireDays(n) < current_days THEN "reactivate"
    ELSE "extend"

(* variant: every renewal starts the membership again *)
renewBranch_AlwaysReactivate(n, newType, current_days) == "reactivate"

(* the branch renewMember takes for node n *)
renewBranch(n, newType, current_days) ==
    IF n.is_active = 0 \/ calcExpireDays(n) < current_days THEN "reactivate"
    ELSE IF newType # n.membership_type THEN "reject"
    ELSE "extend"

(* variant: bonus_days is not cleared *)
renewReactivate_KeepsBonus(n, newType, current_date_str) ==
    [n EXCEPT !.join_date = current_date_str,
              !.membership_type = newType,
              !.is_active = 1]

(* expired or cancelled: the membership starts again today with the chosen type *)
renewReactivate(n, newType, current_date_str) ==
    [n EXCEPT !.join_date = current_date_str,
              !.bonus_days = 0,
              !.membership_type = newType,
              !.is_active = 1]

(* variant: a month is added whatever the type *)
renewExtend_AlwaysMonth(n, newDuration) ==
    [n EXCEPT !.bonus_days = n.bonus_days + 30,
              !.is_active = 1]

(* still valid, same type: the days are added to bonus_days *)
renewExtend(n, newDuration) ==
    [n EXCEPT !.bonus_days = n.bonus_days + newDuration,
              !.is_active = 1]

showAllMembers ==
    /\ pc = "menu"
    /\ members' = syncAutoExpire(members, clock)
    /\ out' = "shown"
    /\ noSave
    /\ UNCHANGED <<next_card_id, clock, ticks, file, tmp, faults>>
    /\ UNCHANGED <<issued, list, nodes>>

(* variant: the capacity test lets one more record in *)
addMember_OneOverCapacity(name, gender, age, phone, typeChoice) ==
    /\ pc = "menu"
    /\ Len(members) <= MAX_MEMBERS => next_card_id <= MaxCardId
    /\ IF Len(members) > MAX_MEMBERS
       THEN /\ out' = "full"
            /\ noSave
            /\ UNCHANGED <<members, next_card_id, issued, list, nodes>>
       ELSE /\ next_card_id' = next_card_id + 1
            /\ issued' = issued \cup {next_card_id}
            /\ members' = appendNode(members,
                   createNode([card_id |-> next_card_id, name |-> name,
                               gender |-> gender, age |-> age, phone |-> phone,
                               join_date |-> getSystemDate(clock),
                               membership_type |-> typeOfChoice(typeChoice),
                               is_active |-> 1, bonus_days |-> 0]))
            /\ list' = linkNode(list, malloc(list))
            /\ nodes' = Append(nodes, malloc(list))
            /\ out' = "added_saved"
            /\ callSave("add")
    /\ UNCHANGED <<clock, ticks, file, tmp, faults>>

addMember(name, gender, age, phone, typeChoice) ==
    /\ pc = "menu"
    /\ Len(members) < MAX_MEMBERS => next_card_id <= MaxCardId
    /\ IF Len(members) >= MAX_MEMBERS
       THEN /\ out' = "full"
            /\ noSave
            /\ UNCHANGED <<members, next_card_id, issued, list, nodes>>
       ELSE /\ next_card_id' = next_card_id + 1
            /\ issued' = issued \cup {next_card_id}
            /\ members' = appendNode(members,
                   createNode([card_id |-> next_card_id, name |-> name,
                               gender |-> gender, age |-> age, phone |-> phone,
                               join_date |-> getSystemDate(clock),
                               membership_type |-> typeOfChoice(typeChoice),
                               is_active |-> 1, bonus_days |-> 0]))
            /\ list' = linkNode(list, malloc(list))
            /\ nodes' = Append(nodes, malloc(list))
            /\ out' = "added_saved"
            /\ callSave("add")
    /\ UNCHANGED <<clock, ticks, file, tmp, faults>>

updateMemberPhone(id, newPhone) ==
    /\ pc = "menu"
    /\ IF ~HasCard(members, id)
       THEN /\ out' = "not_found"
            /\ noSave
            /\ UNCHANGED members
       ELSE /\ members' = [members EXCEPT ![findByCardID(members, id)].phone = newPhone]
            /\ out' = "phone_saved"
            /\ callSave("phone")
    /\ UNCHANGED <<next_card_id, clock, ticks, file, tmp, faults>>
    /\ UNCHANGED <<issued, list, nodes>>

deleteExpiredMember(id) ==
    /\ pc = "menu"
    /\ LET synced == syncAutoExpire(members, clock)
       IN  IF ~HasCard(synced, id)
           THEN /\ members' = synced
                /\ out' = "not_found"
                /\ noSave
                /\ UNCHANGED <<list, nodes>>
           ELSE LET cur == findByCardID(synced, id)
                IN  IF deleteRefused(synced[cur])
                    THEN /\ members' = synced
                         /\ out' = "still_active"
                         /\ noSave
                         /\ UNCHANGED <<list, nodes>>
                    ELSE /\ members' = unlinkNode(synced, cur)
                         /\ list' = unlinkFound(list, searchList(list, nodes, synced, id))
                         /\ nodes' = unlinkNode(nodes, cur)
                         /\ out' = "deleted_saved"
                         /\ callSave("delete")
    /\ UNCHANGED <<next_card_id, clock, ticks, file, tmp, faults>>
    /\ UNCHANGED issued

(* wait: days the clock moves on while the handler waits at its prompts *)
renewMember(id, typeChoice, wait) ==
    /\ pc = "menu"
    /\ wait > 0 => ticks < MaxTicks
    /\ ticks' = IF wait > 0 THEN ticks + 1 ELSE ticks
    /\ clock' = laterBy(clock, wait)
    /\ LET synced == syncAutoExpire(members, clock)
       IN  IF ~HasCard(synced, id)
           THEN /\ members' = synced
                /\ out' = "not_found"
                /\ noSave
           ELSE LET p == findByCardID(synced, id)
                    newType == typeOfChoice(typeChoice)
                    newDuration == durationOfChoice(typeChoice)
                    current_date_str == getSystemDate(clock')
                    current_days == dateToDays(current_date_str)
                    branch == renewBranch(synced[p], newType, current_days)
                IN  IF branch = "reactivate"
                    THEN /\ members' = [synced EXCEPT
                              ![p] = renewReactivate(synced[p], newType, current_date_str)]
                         /\ out' = "reactivated_saved"
                         /\ callSave("renew")
                    ELSE IF branch = "reject"
                    THEN /\ members' = synced
                         /\ out' = "type_mismatch"
                         /\ noSave
                    ELSE /\ synced[p].bonus_days < MaxRenewals * newDuration
                         /\ members' = [synced EXCEPT
                              ![p] = renewExtend(synced[p], newDuration)]
                         /\ out' = "extended_saved"
                         /\ callSave("renew")
    /\ UNCHANGED <<next_card_id, file, tmp, faults>>
    /\ UNCHANGED <<issued, list, nodes>>

searchByCardID(id) ==
    /\ pc = "menu"
    /\ members' = syncAutoExpire(members, clock)
    /\ out' = IF HasCard(members, id) THEN "shown" ELSE "not_found"
    /\ noSave
    /\ UNCHANGED <<next_card_id, clock, ticks, file, tmp, faults>>
    /\ UNCHANGED <<issued, list, nodes>>

searchByName ==
    /\ pc = "menu"
    /\ members' = syncAutoExpire(members, clock)
    /\ out' = "shown"
    /\ noSave
    /\ UNCHANGED <<next_card_id, clock, ticks, file, tmp, faults>>
    /\ UNCHANGED <<issued, list, nodes>>

(* variant: the test for a record that is inactive already is missing *)
updateMemberStatus_NoInactiveCheck(id) ==
    /\ pc = "menu"
    /\ IF ~HasCard(members, id)
       THEN /\ out' = "not_found"
            /\ noSave
            /\ UNCHANGED members
       ELSE LET p == findByCardID(members, id)
            IN  /\ members' = [members EXCEPT ![p].is_active = 0]
                /\ out' = "deactivated_saved"
                /\ callSave("status")
    /\ UNCHANGED <<next_card_id, clock, ticks, file, tmp, faults>>
    /\ UNCHANGED <<issued, list, nodes>>

updateMemberStatus(id) ==
    /\ pc = "menu"
    /\ IF ~HasCard(members, id)
       THEN /\ out' = "not_found"
            /\ noSave
            /\ UNCHANGED members
       ELSE LET p == findByCardID(members, id)
            IN  IF members[p].is_active = 0
                THEN /\ out' = "already_inactive"
                     /\ noSave
                     /\ UNCHANGED members
                ELSE /\ members' = [members EXCEPT ![p].is_active = 0]
                     /\ out' = "deactivated_saved"
                     /\ callSave("status")
    /\ UNCHANGED <<next_card_id, clock, ticks, file, tmp, faults>>
    /\ UNCHANGED <<issued, list, nodes>>

showStatistics ==
    /\ pc = "menu"
    /\ members' = syncAutoExpire(members, clock)
    /\ out' = "shown"
    /\ noSave
    /\ UNCHANGED <<next_card_id, clock, ticks, file, tmp, faults>>
    /\ UNCHANGED <<issued, list, nodes>>

(* main menu choice 0: saveToFile, freeAllMembers, return *)
exitSystem ==
    /\ pc = "menu"
    /\ out' = "exit_saved"
    /\ callSave("exit")
    /\ UNCHANGED <<members, next_card_id, clock, ticks, file, tmp, faults>>
    /\ UNCHANGED <<issued, list, nodes>>

----------------------------------------------------------------------------
(* Inputs that pass the validation loops of addMember *)
AddNames == {<<65, 110, 110>>}
AddGenders == {"female"}
AddAges == {18}
AddPhones == {<<1, 3, 8, 1, 1, 1, 1, 1, 1, 1, 1>>}

(* the program in an environment where no file operation fails and the process
   is never killed *)
NextReliable ==
    \/ main
    \/ saveOpen(TRUE)
    \/ saveWrite
    \/ saveRemove(TRUE)
    \/ saveRename(TRUE)
    \/ \E k \in ClockJumps : Tick(k)
    \/ showAllMembers
    \/ \E name \in AddNames, gender \in AddGenders, age \in AddAges,
          phone \in AddPhones, typeChoice \in AddTypeChoices :
            addMember(name, gender, age, phone, typeChoice)
    \/ \E id \in PhoneIds, newPhone \in NewPhones : updateMemberPhone(id, newPhone)
    \/ \E id \in DeleteIds : deleteExpiredMember(id)
    \/ \E id \in RenewIds, typeChoice \in TypeChoices, wait \in Waits :
            renewMember(id, typeChoice, wait)
    \/ \E id \in SearchIds : searchByCardID(id)
    \/ searchByName
    \/ \E id \in StatusIds : updateMemberStatus(id)
    \/ showStatistics
    \/ exitSystem

(* the same program with environment faults: fopen, remove or rename fails, or
   the process is killed at any point *)
Next ==
    \/ NextReliable
    \/ saveOpen(FALSE)
    \/ saveRemove(FALSE)
    \/ saveRename(FALSE)
    \/ Crash

Spec == Init /\ [][Next]_vars

SpecReliable == Init /\ [][NextReliable]_vars

----------------------------------------------------------------------------
(* The program started on a members.txt it did not write itself: a file edited
   by hand, or left by another installation *)

(* a well-formed record of such a file *)
EditedRecord ==
    [card_id |-> 1004, name |-> <<66, 111, 98>>, gender |-> "male", age |-> 40,
     phone |-> <<1, 3, 9, 0, 0, 0, 0, 0, 0, 0, 0>>, join_date |-> 20260120,
     membership_type |-> "monthly", is_active |-> 1, bonus_days |-> 0]

(* the records whose lines such a file is made of: well-formed ones, and one
   for each check of loadFromFile that a line can fail *)
EditedRecords ==
    { EditedRecord,
      [EditedRecord EXCEPT !.card_id = 1003],
      [EditedRecord EXCEPT !.card_id = 7],
      [EditedRecord EXCEPT !.is_active = 0, !.name = <<69, 118, 101>>],
      [EditedRecord EXCEPT !.bonus_days = 0 - 400],
      [EditedRecord EXCEPT !.card_id = 0],
      [EditedRecord EXCEPT !.age = 15],
      [EditedRecord EXCEPT !.phone = <<1, 3, 9, 0, 0, 0, 0, 0, 0, 0>>],
      [EditedRecord EXCEPT !.gender = "other"],
      [EditedRecord EXCEPT !.membership_type = "other"],
      [EditedRecord EXCEPT !.is_active = 2],
      [EditedRecord EXCEPT !.join_date = 20260230] }

(* a line that lost its last field *)
ShortLine ==
    LET text == Line(EditedRecord) IN SubSeq(text, 1, Len(text) - 2)

EditedLines == {Line(r) : r \in EditedRecords} \cup {ShortLine}

(* a file of n well-formed lines; the first is the cancelled member 1004 *)
LongFile(n) ==
    [i \in 1..n |->
        Line([EditedRecord EXCEPT !.card_id = IF i = 1 THEN 1004 ELSE 900 + i,
                                  !.is_active = IF i = 1 THEN 0 ELSE 1])]

ShortFiles == UNION {[1..n -> EditedLines] : n \in 0..MaxFileLines}

LongFiles == {LongFile(n) : n \in (MAX_MEMBERS - 1)..(MAX_MEMBERS + 1)}

EditedFiles ==
    {[exists |-> TRUE, lines |-> l] : l \in ShortFiles}
        \cup {[exists |-> TRUE, lines |-> l] : l \in LongFiles}

InitEdited ==
    /\ members = <<>>
    /\ next_card_id = FirstCardId
    /\ clock = StartClock
    /\ ticks = 0
    /\ file \in EditedFiles
    /\ tmp = Absent
    /\ pre = Absent
    /\ pc = "off"
    /\ caller = "none"
    /\ save_ret = -1
    /\ out = "none"
    /\ faults = 0
    /\ issued = {}
    /\ list = EmptyList
    /\ nodes = <<>>

NextEdited ==
    \/ main
    \/ saveOpen(TRUE)
    \/ saveWrite
    \/ saveRemove(TRUE)
    \/ saveRename(TRUE)
    \/ showAllMembers
    \/ \E name \in AddNames, gender \in AddGenders, age \in AddAges,
          phone \in AddPhones, typeChoice \in AddTypeChoices :
            addMember(name, gender, age, phone, typeChoice)
    \/ \E id \in DeleteIds : deleteExpiredMember(id)
    \/ \E id \in StatusIds : updateMemberStatus(id)
    \/ exitSystem

SpecEdited == InitEdited /\ [][NextEdited]_vars

----------------------------------------------------------------------------
(* The program used with names of any characters scanf("%29s") accepts: all
   but white space *)

OddNames == {<<65, 124, 66>>}

NextNames ==
    \/ main
    \/ saveOpen(TRUE)
    \/ saveWrite
    \/ saveRemove(TRUE)
    \/ saveRename(TRUE)
    \/ showAllMembers
    \/ \E name \in AddNames \cup OddNames, gender \in AddGenders, age \in AddAges,
          phone \in AddPhones, typeChoice \in AddTypeChoices :
            addMember(name, gender, age, phone, typeChoice)
    \/ \E id \in DeleteIds : deleteExpiredMember(id)
    \/ \E id \in StatusIds : updateMemberStatus(id)
    \/ \E k \in ClockJumps : Tick(k)
    \/ exitSystem

SpecNames == Init /\ [][NextNames]_vars

----------------------------------------------------------------------------
(* Properties *)

InSave == pc \in {"save_open", "save_write", "save_remove", "save_rename"}

Serialized(ms) == [exists |-> TRUE, lines |-> [i \in 1..Len(ms) |-> Line(ms[i])]]

Today(tm) == dateToDays(getSystemDate(tm))

(* C1: at every point at which saveToFile can be interrupted, a destination
   file that existed when the save began still exists and holds either its
   complete pre-save contents or the complete new contents; it is never absent
   or partial. *)
C1_SaveCrashSafe ==
    (InSave /\ pre.exists) => (file = pre \/ file = Serialized(members))

(* C2: when the staging file has been written and rename fails, saveToFile
   returns 0, the staging file is gone and the destination holds its pre-save
   contents. *)
C2_RenameFailureKeepsDestination ==
    [][(pc = "save_rename" /\ save_ret' = 0) => (~tmp'.exists /\ file' = pre)]_vars

(* the posture of section 4.4 of a record r on the day today *)
ActiveCurrent(r, today) == r.is_active = 1 /\ calcExpireDays(r) >= today
ExpiredOrInactive(r, today) == r.is_active = 0 \/ calcExpireDays(r) < today

(* nothing was saved: the handler is back at the menu and both files are as before *)
NoSaveDone == pc' = "menu" /\ file' = file /\ tmp' = tmp /\ save_ret' = save_ret

(* C3: a renew request for an Active-Current record with a type other than the
   record's type is rejected, leaves every field of the record unchanged and
   saves nothing. *)
C3_RenewTypeExclusive ==
    [][\A id \in RenewIds, c \in TypeChoices, w \in Waits :
          (renewMember(id, c, w) /\ HasCard(members, id)) =>
             LET p == findByCardID(members, id)
             IN  (ActiveCurrent(members[p], Today(clock'))
                     /\ typeOfChoice(c) # members[p].membership_type)
                 => /\ out' = "type_mismatch"
                    /\ Len(members') = Len(members)
                    /\ members'[p] = members[p]
                    /\ NoSaveDone]_vars

C3_Witness ==
    /\ pc = "menu"
    /\ out = "type_mismatch"
    /\ \E i \in 1..Len(members) :
          members[i].card_id = 1004 /\ ActiveCurrent(members[i], Today(clock))

(* C4: a renew request for an Active-Current record with the record's own type
   leaves join_date, membership_type and every other field unchanged, keeps
   is_active true and adds exactly the duration of the type (30, 90 or 365) to
   bonus_days, so that the expire day moves by that amount. *)
C4_RenewAccumulates ==
    [][\A id \in RenewIds, c \in TypeChoices, w \in Waits :
          (renewMember(id, c, w) /\ HasCard(members, id)) =>
             LET p == findByCardID(members, id)
                 d == IF members[p].membership_type = "monthly" THEN 30
                      ELSE IF members[p].membership_type = "quarterly" THEN 90
                      ELSE 365
             IN  (ActiveCurrent(members[p], Today(clock'))
                     /\ typeOfChoice(c) = members[p].membership_type)
                 => /\ out' = "extended_saved"
                    /\ Len(members') = Len(members)
                    /\ members'[p] = [members[p] EXCEPT !.bonus_days = members[p].bonus_days + d]
                    /\ members'[p].is_active = 1
                    /\ calcExpireDays(members'[p]) = calcExpireDays(members[p]) + d]_vars

C4_Witness ==
    /\ out = "extended_saved"
    /\ \E i \in 1..Len(members) :
          /\ members[i].card_id = 1004
          /\ members[i].is_active = 1
          /\ members[i].bonus_days = getDurationDays(members[i].membership_type)

(* C5: a renew request for an Expired-or-Inactive record succeeds with any of
   the three types and sets join_date to today, bonus_days to 0,
   membership_type to the requested type and is_active to true, whatever the
   type and the bonus_days of the record were. *)
C5_RenewReactivates ==
    [][\A id \in RenewIds, c \in TypeChoices, w \in Waits :
          (renewMember(id, c, w) /\ HasCard(members, id)) =>
             LET p == findByCardID(members, id)
             IN  ExpiredOrInactive(members[p], Today(clock'))
                 => /\ out' = "reactivated_saved"
                    /\ Len(members') = Len(members)
                    /\ members'[p] = [members[p] EXCEPT
                                        !.join_date = getSystemDate(clock'),
                                        !.bonus_days = 0,
                                        !.membership_type = typeOfChoice(c),
                                        !.is_active = 1]]_vars

C5_Witness ==
    /\ out = "reactivated_saved"
    /\ \E i \in 1..Len(members) :
          /\ members[i].card_id = 1004
          /\ members[i].is_active = 1
          /\ members[i].membership_type = "yearly"
          /\ members[i].bonus_days = 0
          /\ members[i].join_date = getSystemDate(clock)

(* C6: the is_active of an existing record goes from false to true only in a
   renew step for that record that takes the reactivation branch. *)
C6_MonotonicDeactivation ==
    [][\A i \in 1..Len(members), j \in 1..Len(members') :
          (/\ members[i].card_id = members'[j].card_id
           /\ members[i].is_active = 0
           /\ members'[j].is_active = 1)
          => /\ \E c \in TypeChoices, w \in Waits : renewMember(members[i].card_id, c, w)
             /\ out' = "reactivated_saved"]_vars

C6_Witness ==
    /\ pc = "save_open"
    /\ caller = "renew"
    /\ out = "reactivated_saved"
    /\ \E i \in 1..Len(members) : members[i].card_id = 1004 /\ members[i].is_active = 1
    /\ \E k \in 1..Len(file.lines) :
          /\ lineAccepted(file.lines[k])
          /\ nodeOfLine(file.lines[k]).card_id = 1004
          /\ nodeOfLine(file.lines[k]).is_active = 0

(* a step that runs the synchronizer and nothing else *)
SyncOnlyStep ==
    \/ showAllMembers
    \/ searchByName
    \/ showStatistics
    \/ \E id \in SearchIds : searchByCardID(id)

(* C7: one synchronizer pass marks inactive exactly the active records whose
   expire day (join ordinal + duration + bonus days) is strictly before today's
   ordinal; an active record whose expire day is today stays active, inactive
   records and all other fields are left as they are. *)
C7_SyncRule ==
    [][SyncOnlyStep =>
          /\ Len(members') = Len(members)
          /\ \A i \in 1..Len(members) :
                LET r == members[i]
                    expire_day == dateToDays(r.join_date)
                                    + getDurationDays(r.membership_type) + r.bonus_days
                IN  /\ (r.is_active = 1 /\ expire_day < Today(clock))
                          => members'[i] = [r EXCEPT !.is_active = 0]
                    /\ (r.is_active = 1 /\ expire_day >= Today(clock))
                          => members'[i] = r
                    /\ r.is_active = 0 => members'[i] = r]_vars

C7_Witness ==
    /\ pc = "menu"
    /\ out = "shown"
    /\ \E i \in 1..Len(members) :
          members[i].is_active = 1 /\ calcExpireDays(members[i]) = Today(clock)
    /\ \E i \in 1..Len(members) :
          members[i].is_active = 0 /\ calcExpireDays(members[i]) < Today(clock)

(* C8: for the store of every reachable state and every today from the current
   day on, a second synchronizer pass changes nothing: two passes give the
   store one pass gives. *)
C8_SyncIdempotent ==
    \A k \in 0..MaxTicks :
       LET tm == laterBy(clock, k)
       IN  syncAutoExpire(syncAutoExpire(members, tm), tm) = syncAutoExpire(members, tm)

C8_Witness ==
    /\ pc = "menu"
    /\ syncAutoExpire(members, clock) # members

(* C9 as stated: a delete request for a record whose is_active is true when the
   request is made fails with the still-active violation and leaves the store
   and the data file unchanged, whatever the remaining days are. *)
C9_DeleteGatedAsStated ==
    [][\A id \in DeleteIds :
          (deleteExpiredMember(id) /\ HasCard(members, id)
             /\ members[findByCardID(members, id)].is_active = 1)
          => /\ out' = "still_active"
             /\ members' = members
             /\ NoSaveDone]_vars

(* C9 amended: a delete request for a record that is active and not past its
   expire day (remaining days zero or positive) fails with the still-active
   violation, removes no record and saves nothing; the record is unchanged and
   any other record is unchanged or, being active and past its expire day, is
   marked inactive by the synchronizer pass delete begins with. *)
C9_DeleteGated ==
    [][\A id \in DeleteIds :
          (deleteExpiredMember(id) /\ HasCard(members, id)
             /\ ActiveCurrent(members[findByCardID(members, id)], Today(clock)))
          => /\ out' = "still_active"
             /\ Len(members') = Len(members)
             /\ members'[findByCardID(members, id)] = members[findByCardID(members, id)]
             /\ \A i \in 1..Len(members) :
                   \/ members'[i] = members[i]
                   \/ /\ members[i].is_active = 1
                      /\ calcExpireDays(members[i]) < Today(clock)
                      /\ members'[i] = [members[i] EXCEPT !.is_active = 0]
             /\ NoSaveDone]_vars

C9_Witness ==
    /\ pc = "menu"
    /\ out = "still_active"
    /\ \E i \in 1..Len(members) :
          /\ members[i].card_id = 1004
          /\ members[i].is_active = 1
          /\ calcExpireDays(members[i]) = Today(clock)

(* C10: while the program runs, a record leaves the store only in a delete
   step that names it, and only if its is_active is false when it is detached,
   that is after the synchronizer pass delete begins with. *)
C10_DetachOnlyInactive ==
    [][pc' # "off" =>
          \A i \in 1..Len(members) :
             (\A j \in 1..Len(members') : members'[j].card_id # members[i].card_id)
             => /\ deleteExpiredMember(members[i].card_id)
                /\ out' = "deleted_saved"
                /\ ExpiredOrInactive(members[i], Today(clock))]_vars

C10_Witness ==
    /\ out = "deleted_saved"
    /\ pc = "save_open"
    /\ caller = "delete"
    /\ \A i \in 1..Len(members) : members[i].card_id # 1004
    /\ \E k \in 1..Len(file.lines) :
          lineAccepted(file.lines[k]) /\ nodeOfLine(file.lines[k]).card_id = 1004

(* C11: in every reachable state, also after loading a file edited by hand, no
   two records of the store have the same card_id. *)
C11_CardIdUnique ==
    \A i \in 1..Len(members), j \in 1..Len(members) :
        i # j => members[i].card_id # members[j].card_id

(* a step in which addMember appends a record *)
AddStep == out' = "added_saved" /\ next_card_id' = next_card_id + 1

(* C12: every successful add assigns a card_id strictly greater than every
   card_id an earlier add assigned, also after a delete, a shutdown save and
   the load of the next start: an id once assigned is never assigned again. *)
C12_IdsNeverReused ==
    [][AddStep => \A old \in issued : next_card_id > old]_vars

(* the store with every record past its expire day marked inactive *)
WithElapsedInactive(ms, today) ==
    [i \in 1..Len(ms) |->
        IF calcExpireDays(ms[i]) < today THEN [ms[i] EXCEPT !.is_active = 0] ELSE ms[i]]

(* C13: for the store of every reachable state, loading the file a successful
   save writes gives back the same records in the same order with the same
   nine fields, except that records past their expire day come back inactive. *)
C13_RoundTrip ==
    loadFromFile(Serialized(members), <<>>, FirstCardId, clock).ms
        = WithElapsedInactive(members, Today(clock))

(* the constraints of the data model on one record *)
ValidRecord(r) ==
    /\ r.card_id > 0
    /\ r.age \in 18..80
    /\ Len(r.phone) = 11
    /\ \A i \in 1..Len(r.phone) : r.phone[i] \in 0..9
    /\ r.gender \in {"male", "female"}
    /\ r.membership_type \in {"monthly", "quarterly", "yearly"}
    /\ r.is_active \in {0, 1}
    /\ dateToDays(r.join_date) # 0

(* a line of nine fields whose values meet the constraints *)
ValidLine(line) ==
    ByValue(LAMBDA tok : IF Len(tok) < 9 THEN FALSE ELSE ValidRecord(fieldsOfLine(tok)),
            strtok(line))

(* C14: a start on an existing file takes exactly the lines that meet the
   constraints, in their order and as far as the capacity goes: every record of
   the store meets the constraints, a line that fails one contributes no record
   and does not keep later lines from being loaded, and the count loadFromFile
   returns is the number of records in the store. With no such line the count
   is 0 and the demonstration data are used. *)
C14_LoadValidation ==
    [][(main /\ file.exists) =>
          ByValue(LAMBDA valid :
              IF Len(valid) = 0
              THEN /\ out' = "demo_data"
                   /\ loadFromFile(file, members, next_card_id, clock).loaded = 0
              ELSE /\ out' = "loaded"
                   /\ Len(members') = (IF Len(valid) > MAX_MEMBERS THEN MAX_MEMBERS
                                       ELSE Len(valid))
                   /\ loadFromFile(file, members, next_card_id, clock).loaded
                         = Len(members')
                   /\ \A i \in 1..Len(members') :
                         /\ ValidRecord(members'[i])
                         /\ \/ members'[i] = nodeOfLine(valid[i])
                            \/ members'[i] = [nodeOfLine(valid[i]) EXCEPT !.is_active = 0],
              SelectSeq(file.lines, ValidLine))]_vars

C14_Witness ==
    /\ pc = "menu"
    /\ out = "loaded"
    /\ save_ret = -1
    /\ Len(file.lines) = 2
    /\ ~ValidLine(file.lines[1])
    /\ ValidLine(file.lines[2])
    /\ Len(members) = 1
    /\ members[1].card_id = 1003

(* C15: in every reachable state the bonus_days of every record is at least 0;
   in particular a line of the file with a negative bonus_days gives no record. *)
C15_BonusNonNegative ==
    \A i \in 1..Len(members) : members[i].bonus_days >= 0

(* C16: an operation chosen at the menu that changes a persisted field of a
   record or the set of records, the is_active flips of its synchronizer pass
   included, performs a save before it returns to the menu. *)
C16_WriteThrough ==
    [][(pc = "menu" /\ members' # members) => pc' = "save_open"]_vars

(* the result lines that tell the caller the change was saved *)
SavedReports ==
    {"added_saved", "phone_saved", "deleted_saved", "reactivated_saved",
     "extended_saved", "deactivated_saved"}

(* C17: when the save of an add, phone update, delete, renewal or deactivation
   has failed, the operation is back at the menu without having reported the
   change as saved. *)
C17_SaveFailureReported ==
    (pc = "menu" /\ save_ret = 0) => out \notin SavedReports

(* what no request for an absent card_id changes *)
NotFoundFrame ==
    /\ out' = "not_found"
    /\ Len(members') = Len(members)
    /\ next_card_id' = next_card_id
    /\ NoSaveDone

(* C18: an update-phone, delete, renew or deactivate request for a
   card_id that is not in the store reports not-found and leaves every field of
   every record, the record count, the next-id counter and the data file
   unchanged. *)
C18_NotFoundMutationFree ==
    [][\A id \in PhoneIds \cup DeleteIds \cup RenewIds \cup StatusIds :
          (/\ ~HasCard(members, id)
           /\ \/ \E newPhone \in NewPhones : updateMemberPhone(id, newPhone)
              \/ deleteExpiredMember(id)
              \/ \E c \in TypeChoices, w \in Waits : renewMember(id, c, w)
              \/ updateMemberStatus(id))
          => (NotFoundFrame /\ members' = members)]_vars

(* an add request with fields the prompts accept *)
AddRequest ==
    \E name \in AddNames, gender \in AddGenders, age \in AddAges,
       phone \in AddPhones, typeChoice \in AddTypeChoices :
         addMember(name, gender, age, phone, typeChoice)

(* the add was refused for capacity and changed nothing *)
AddRefusedFull ==
    /\ out' = "full"
    /\ members' = members
    /\ next_card_id' = next_card_id
    /\ NoSaveDone

(* the add appended one record with the previous next-id, today as join date,
   active and without bonus days *)
AddAppended ==
    /\ Len(members') = Len(members) + 1
    /\ SubSeq(members', 1, Len(members)) = members
    /\ members'[Len(members')].card_id = next_card_id
    /\ members'[Len(members')].join_date = getSystemDate(clock)
    /\ members'[Len(members')].is_active = 1
    /\ members'[Len(members')].bonus_days = 0
    /\ next_card_id' = next_card_id + 1

(* C19: the record count never exceeds MAX_MEMBERS; an add on a store holding
   MAX_MEMBERS records is refused and leaves the store, the next-id counter and
   the file unchanged; any other add appends one record with card_id equal to
   the previous next-id, join_date = today, is_active = 1 and bonus_days = 0,
   and the count grows by one. *)
C19_Capacity ==
    /\ [](Len(members) <= MAX_MEMBERS)
    /\ [][AddRequest => IF Len(members) = MAX_MEMBERS
                        THEN AddRefusedFull
                        ELSE AddAppended]_vars

C19_Witness ==
    /\ pc = "menu"
    /\ out = "full"
    /\ Len(members) = MAX_MEMBERS
    /\ members[MAX_MEMBERS].card_id \in issued
    /\ Len(file.lines) = MAX_MEMBERS

----------------------------------------------------------------------------
(* The calendar over a century: the program is started on CalendarStart on a
   file holding one member who joined that day, and the host clock passes
   midnight CalendarDays times *)

CalendarDays == 37300

CalendarStart == [tm_year |-> 99, tm_mon |-> 0, tm_mday |-> 1]

CalendarFile ==
    Serialized(<<[EditedRecord EXCEPT !.join_date = getSystemDate(CalendarStart),
                                      !.membership_type = "yearly"]>>)

InitCalendar ==
    /\ members = <<>>
    /\ next_card_id = FirstCardId
    /\ clock = CalendarStart
    /\ ticks = 0
    /\ file = CalendarFile
    /\ tmp = Absent
    /\ pre = Absent
    /\ pc = "off"
    /\ caller = "none"
    /\ save_ret = -1
    /\ out = "none"
    /\ faults = 0
    /\ issued = {}
    /\ list = EmptyList
    /\ nodes = <<>>

(* the host clock passes midnight; ticks counts the days since CalendarStart *)
Midnight ==
    /\ ticks < CalendarDays
    /\ ticks' = ticks + 1
    /\ clock' = nextDay(clock)
    /\ UNCHANGED <<members, next_card_id, file, tmp, pre, pc, caller, save_ret,
                   out, faults, issued, list, nodes>>

NextCalendar ==
    \/ main
    \/ showAllMembers
    \/ Midnight

SpecCalendar == InitCalendar /\ [][NextCalendar]_vars

(* C20: for the dates d1 = CalendarStart <= d2 = today of a range of years that
   holds leap years, non-leap years, the century non-leap year 2100 and the
   400-multiple leap year 2000, dateToDays(d2) - dateToDays(d1) is the number of
   days between them, dateToDays(d1) < dateToDays(d2) when d1 < d2, and two
   consecutive calendar days differ by exactly 1. *)
C20_OrdinalExact ==
    /\ [](Today(clock) - Today(CalendarStart) = ticks)
    /\ [](ticks > 0 => Today(CalendarStart) < Today(clock))
    /\ [][Midnight => Today(clock') = Today(clock) + 1]_vars

(* 1 March 2100, the day after 28 February of the century non-leap year, 36949
   days after 1 January 1999; the member of the file has been marked expired *)
C20_Witness ==
    /\ clock = [tm_year |-> 200, tm_mon |-> 2, tm_mday |-> 1]
    /\ ticks = 36949
    /\ pc = "menu"
    /\ Len(members) = 1
    /\ members[1].join_date = getSystemDate(CalendarStart)
    /\ members[1].is_active = 0

----------------------------------------------------------------------------
(* Dates of the file: the program is started on a file holding one member
   whose join_date field is any year-month-day text of DateYears, months 0 to
   MaxMonth and days 0 to MaxDay *)

MaxMonth == 13
MaxDay == 32

DateYears == {0, 1, 4, 100, 400, 1900, 2000, 2023, 2024, 2100, 9999}

DatedFile(y, m, d) ==
    Serialized(<<[EditedRecord EXCEPT !.join_date = y * 10000 + m * 100 + d]>>)

InitDates ==
    /\ members = <<>>
    /\ next_card_id = FirstCardId
    /\ clock = StartClock
    /\ ticks = 0
    /\ file \in {DatedFile(y, m, d) : y \in DateYears, m \in 0..MaxMonth, d \in 0..MaxDay}
    /\ tmp = Absent
    /\ pre = Absent
    /\ pc = "off"
    /\ caller = "none"
    /\ save_ret = -1
    /\ out = "none"
    /\ faults = 0
    /\ issued = {}
    /\ list = EmptyList
    /\ nodes = <<>>

NextDates ==
    \/ main
    \/ saveOpen(TRUE)
    \/ saveWrite
    \/ saveRemove(TRUE)
    \/ saveRename(TRUE)

SpecDates == InitDates /\ [][NextDates]_vars

(* a day of the Gregorian calendar *)
GregorianDate(y, m, d) ==
    /\ m \in 1..12
    /\ d >= 1
    /\ d <= (IF m = 2
             THEN (IF y % 4 = 0 /\ (y % 100 # 0 \/ y % 400 = 0) THEN 29 ELSE 28)
             ELSE IF m \in {4, 6, 9, 11} THEN 30 ELSE 31)

(* C21: dateToDays returns 0 exactly for the dates that are not days of the
   Gregorian calendar (month outside 1..12, day below 1 or above the month's
   day count, 29 February only in leap years) and a non-zero ordinal for every
   valid date; the load keeps the record of the file exactly when its join_date
   is valid. *)
C21_Sentinel ==
    [][main =>
         ByValue(LAMBDA date :
                     /\ dateToDays(date) = 0
                          <=> ~GregorianDate(scanYear(date), scanMonth(date), scanDay(date))
                     /\ out' = "loaded" <=> dateToDays(date) # 0
                     /\ out' = "loaded" => (Len(members') = 1 /\ members'[1].join_date = date),
                 fieldsOfLine(strtok(file.lines[1])).join_date)]_vars

(* the program started on a file whose member joined on 2023-02-29: the record
   was dropped and the demo data is about to be saved *)
C21_Witness ==
    /\ pc = "save_open"
    /\ out = "demo_data"
    /\ file = DatedFile(2023, 2, 29)
    /\ dateToDays(20230229) = 0
    /\ dateToDays(20240229) # 0

(* C22: after a load that accepted at least one line, next_card_id is one past
   the greatest card_id among the accepted lines, whatever the file holds (also
   when its greatest card_id is below 1000). *)
C22_NextIdAfterLoad ==
    [][(main /\ out' = "loaded") =>
          \E i \in 1..Len(members') :
              /\ next_card_id' = members'[i].card_id + 1
              /\ \A j \in 1..Len(members') : members'[j].card_id <= members'[i].card_id]_vars

(* C23: the membership_type and the join_date of an existing record change
   only in a renew step for that record that takes the branch of an
   Expired-or-Inactive record; no other step of the running program (same-type
   renewal, rejected renewal, phone update, synchronizer pass, deactivation,
   save, restart) changes them. *)
C23_TypeChangesOnlyAtReactivation ==
    [][\A i \in 1..Len(members), j \in 1..Len(members') :
          (/\ members[i].card_id = members'[j].card_id
           /\ \/ members[i].membership_type # members'[j].membership_type
              \/ members[i].join_date # members'[j].join_date)
          => /\ \E c \in TypeChoices, w \in Waits : renewMember(members[i].card_id, c, w)
             /\ out' = "reactivated_saved"
             /\ ExpiredOrInactive(members[i], Today(clock'))]_vars

(* member 1004, a quarterly member since 2025-11-01, is a monthly member since
   today after a renewal, in the store and in the file *)
C23_Witness ==
    /\ pc = "menu"
    /\ out = "reactivated_saved"
    /\ \E i \in 1..Len(members) :
          /\ members[i].card_id = 1004
          /\ members[i].membership_type = "monthly"
          /\ members[i].join_date = getSystemDate(clock)
          /\ members[i].join_date # 20251101
          /\ file.exists
          /\ i <= Len(file.lines)
          /\ nodeOfLine(file.lines[i]) = members[i]

(* C24: a deactivate request for a record whose is_active is 1 sets is_active
   of that record to 0, changes no other field and no other record, and starts
   a save; for a record whose is_active is 0 it reports already-inactive,
   changes nothing and saves nothing. *)
C24_DeactivateMinimal ==
    [][\A id \in StatusIds :
          (updateMemberStatus(id) /\ HasCard(members, id)) =>
             LET p == findByCardID(members, id)
             IN  IF members[p].is_active = 1
                 THEN /\ members' = [members EXCEPT
                                        ![p] = [members[p] EXCEPT !.is_active = 0]]
                      /\ next_card_id' = next_card_id
                      /\ out' = "deactivated_saved"
                      /\ pc' = "save_open"
                      /\ caller' = "status"
                 ELSE /\ out' = "already_inactive"
                      /\ members' = members
                      /\ next_card_id' = next_card_id
                      /\ NoSaveDone]_vars

(* member 1004 was deactivated by hand while its membership was still current,
   and the save has written the file *)
C24_Witness ==
    /\ pc = "menu"
    /\ out = "deactivated_saved"
    /\ save_ret = 1
    /\ file = Serialized(members)
    /\ \E i \in 1..Len(members) :
          /\ members[i].card_id = 1004
          /\ members[i].is_active = 0
          /\ calcExpireDays(members[i]) >= Today(clock)

(* the store main builds at the start of the program from file f on day tm: the
   loaded records, or the demo data when loadFromFile returns 0 *)
startupStore(f, tm) ==
    ByValue(LAMBDA r : IF r.loaded <= 0 THEN initTestData(tm) ELSE r.ms,
            loadFromFile(f, <<>>, FirstCardId, tm))

(* C25: when the process is interrupted at a step of saveToFile, the store the
   next start of the program builds from the file left behind is the store
   being saved or the store the file held when the save began, up to a
   synchronizer pass; the demo data never takes the place of member data. *)
C25_RestartRecovers ==
    [][(Crash /\ InSave) =>
          ByValue(LAMBDA restarted :
                      \/ restarted = syncAutoExpire(members, clock)
                      \/ /\ pre.exists
                         /\ restarted = syncAutoExpire(loadLines(pre.lines).ms, clock),
                  syncAutoExpire(startupStore(file', clock'), clock'))]_vars

(* head, tail and member_count agree with the nodes met from head, and these
   are the nodes of the store in the order of their insertion *)
ListIntegrity ==
    ByValue(LAMBDA met :
                /\ list.member_count = Len(met)
                /\ met = nodes
                /\ Len(members) = Len(nodes)
                /\ (list.head = NULL) <=> (list.member_count = 0)
                /\ (list.tail = NULL) <=> (list.member_count = 0)
                /\ list.member_count > 0
                      => /\ list.head = met[1]
                         /\ list.tail = met[Len(met)]
                         /\ list.next[list.tail] = NULL,
            traversal(list))

(* the delete removed exactly the first node holding card_id id and kept the
   order of the others *)
DeletedExactly(id) ==
    \E i \in 1..Len(members) :
        /\ members[i].card_id = id
        /\ \A h \in 1..(i - 1) : members[h].card_id # id
        /\ traversal(list') = unlinkNode(traversal(list), i)
        /\ Len(members') = Len(members) - 1
        /\ \A k \in 1..Len(members') :
              members'[k].card_id = unlinkNode(members, i)[k].card_id

(* the add put one new node behind the node that was the last *)
AppendedLast ==
    /\ Len(members') = Len(members) + 1
    /\ SubSeq(members', 1, Len(members)) = members
    /\ SubSeq(traversal(list'), 1, Len(members)) = traversal(list)
    /\ list'.tail = traversal(list')[Len(members')]
    /\ list'.tail \notin DOMAIN list.next

(* C26: in every state member_count is the number of nodes met from head,
   tail is the last of them, head and tail are NULL exactly when the count is
   0, and the nodes are met in the order of their insertion; a delete of the
   first, a middle, the last or the only record removes exactly that node and
   keeps the order of the others, and an add appends its node behind the
   current last one. *)
C26_ListIntegrity ==
    /\ []ListIntegrity
    /\ [][\A id \in DeleteIds :
             (deleteExpiredMember(id) /\ out' = "deleted_saved") => DeletedExactly(id)]_vars
    /\ [][(AddRequest /\ out' = "added_saved") => AppendedLast]_vars

(* the file held 1004 and 1003; 1004, the first node, was deleted and 1005 was
   added, at the address 1004 had, behind 1003 *)
C26_Witness ==
    /\ pc = "menu"
    /\ out = "added_saved"
    /\ Len(members) = 2
    /\ members[1].card_id = 1003
    /\ members[2].card_id = 1005
    /\ nodes = <<2, 1>>
    /\ list.head = 2
    /\ list.tail = 1
    /\ list.member_count = 2

====
